---- MODULE Spec2Model ----
(***************************************************************************)
(* SharePointExcelApp (src/app/static/js/app.js): the client-side          *)
(* controller of the spreadsheet editor.  The state is the controller's    *)
(* fields, the DOM elements it writes, and the suspended async handlers    *)
(* (one per request in flight).  Every action is one synchronous run of a  *)
(* handler: from the event (a click, a cell edit, a response) to the next  *)
(* await or the handler's end.                                             *)
(***************************************************************************)
EXTENDS Integers, Sequences, FiniteSets, TLC

\* ------------------------------------------------------------------ bounds

\* The events of one run that come from outside the program and are not
\* responses: the user's actions (an edit, a click, a shortcut).
MaxEvents == 3

\* Requests in flight at once (suspended handlers).
MaxInflight == 2

\* ------------------------------------------------------- values and rows

\* A row identifier as JavaScript sees it: the backend's ID is a number or a
\* string, a row without one has ID undefined, and onCellChanged mints the
\* string 'new_' + Date.now().
IdNumber(n) == [t |-> "number", v |-> n]

IdString(n) == [t |-> "string", v |-> n]

NoID == [t |-> "undefined", v |-> 0]

TempToken(ts) == [t |-> "new_", v |-> ts]

\* The editable columns (the names of the schema's fields).
FieldNames == {"Status", "Owner"}

\* What a cell editor can deliver for a column.
CellValues(f) == IF f = "Status" THEN {"Open", "Closed"} ELSE {"Alice", "Bob"}

Row(id, status, owner) == [ID |-> id, Status |-> status, Owner |-> owner]

\* A field definition of the schema: the column's name, its display title,
\* its type and whether it is required.
FieldDef(name, required) ==
    [name |-> name,
     title |-> IF name = "Status" THEN "Current Status" ELSE "Owned By",
     type |-> IF name = "Status" THEN "Choice" ELSE "Text",
     required |-> required]

\* The field definitions GET /api/fields answers with.
Schema == << FieldDef("Status", TRUE), FieldDef("Owner", FALSE) >>

\* The item lists GET /api/data answers with, for a backend that delivers its
\* IDs as numbers and for one that delivers them as strings: the list holds
\* row 7 and one row that has no ID, and the backend's copy of their cells
\* changes between two requests.
BackendID(type) == IF type = "number" THEN IdNumber(7) ELSE IdString(7)

DataSets(type) ==
    { << Row(BackendID(type), "Open", "Alice"), Row(NoID, "Open", "Alice") >>,
      << Row(BackendID(type), "Closed", "Alice"), Row(NoID, "Open", "Bob") >> }

RowIndexes == UNION { DOMAIN d : d \in DataSets("number") \cup DataSets("string") }

\* ------------------------------------------------------------- variables

VARIABLES
    fields,               \* this.fields
    currentData,          \* this.currentData, the row objects the grid edits in place
    pendingChanges,       \* this.pendingChanges, a Map in insertion order
    pendingConfirmAction, \* this.pendingConfirmAction: the rows its closure captured
    isConnected,          \* this.isConnected
    inflight,             \* the requests in flight, oldest first, each with its handler
    now,                  \* what Date.now() returned when it was last called
    toast,                \* the toast the last step showed, NoToast when it showed none
    uncaught,             \* the last step ended its handler in an unhandled rejection
    loading,              \* #loadingSpinner shown and #myGrid hidden
    errorAlert,           \* #errorAlert: "" when hidden, else its message
    pendingText,          \* the number in #pendingChanges
    saveDisabled,         \* #saveChangesBtn.disabled
    modalOpen,            \* #editModal is shown
    idType,               \* how the backend's JSON writes an ID: "number" or "string"
    events,               \* the number of user actions so far
    session,              \* history: per row, what was edited since the map was last cleared
    validated,            \* the last direct call of validateRowData: this.fields, data, result
    budget,               \* the number of user actions this run is followed for
    staleLoads            \* history: the /api/data requests in flight that were issued
                          \* before the request whose response currentData holds

vars ==
    << fields, currentData, pendingChanges, pendingConfirmAction, isConnected,
       inflight, now, toast, uncaught, loading, errorAlert, pendingText,
       saveDisabled, modalOpen, idType, events, session, validated, budget,
       staleLoads >>

\* --------------------------------------------------------------- helpers

\* showToast(message, type): the element shown, and the row ID the message
\* names (NoID when it names none).
Toast(type, message, row) ==
    [element |-> IF type = "error" THEN "errorToast" ELSE "successToast",
     type |-> type, message |-> message, row |-> row]

NoToast == [element |-> "", type |-> "", message |-> "", row |-> NoID]

\* A suspended handler and the request it awaits.
Task(kind, stage, origin, ops, rows, idx) ==
    [kind |-> kind, stage |-> stage, origin |-> origin, ops |-> ops, rows |-> rows,
     idx |-> idx]

\* loadInitialData awaiting /api/fields or /api/data; origin names the caller:
\* "init" is the constructor, every other origin is a refreshData() call.
LoadTask(stage, origin) == Task("load", stage, origin, <<>>, <<>>, 0)

RemoveAt(s, i) == SubSeq(s, 1, i - 1) \o SubSeq(s, i + 1, Len(s))

\* The history of one row since the pending map was last cleared: whether a
\* tracked edit happened, event.data at the first one, the last value written
\* per field, and the map keys its edits were filed under.
NoHistory == [edited |-> FALSE, first |-> Row(NoID, "", ""), writes |-> <<>>, keys |-> {}]

NoSession == [r \in RowIndexes |-> NoHistory]

\* validateRowData was not called directly.
NotValidated == [called |-> FALSE, fs |-> <<>>, data |-> <<>>, errors |-> <<>>]

\* ------------------------------------------------------------------ Init

\* The state the constructor leaves: empty fields, map and data, and
\* loadInitialData() suspended at its first await.  The Save button's and the
\* pending counter's first contents come from the page, not from app.js.
Constructed ==
    /\ fields = <<>>
    /\ currentData = <<>>
    /\ pendingChanges = <<>>
    /\ pendingConfirmAction = <<>>
    /\ isConnected = FALSE
    /\ inflight = << LoadTask("fields", "init") >>
    /\ now = 1
    /\ toast = NoToast
    /\ uncaught = FALSE
    /\ loading = TRUE
    /\ errorAlert = ""
    /\ pendingText = 0
    /\ saveDisabled \in BOOLEAN
    /\ modalOpen = FALSE
    /\ events = 0
    /\ idType \in {"number", "string"}
    /\ session = NoSession
    /\ validated = NotValidated
    /\ staleLoads = 0

Init == Constructed /\ budget = MaxEvents

\* One more event from outside is counted.
Event ==
    /\ events < budget
    /\ events' = events + 1
    /\ UNCHANGED << idType, validated, budget, staleLoads >>

\* A response arrives: no event from outside.
Response == UNCHANGED << events, idType, validated, budget >>

\* A response that is not the rows'.
NoRows == UNCHANGED staleLoads

\* The step shows no toast; the step ends in no unhandled rejection.
NoToastShown == toast' = NoToast

Handled == uncaught' = FALSE

\* A user action that issues a request finds room for it.
Room == Len(inflight) < MaxInflight

\* ---------------------------------------------------------- onCellChanged

\* const rowId = event.data.ID || 'new_' + Date.now();
RowIdOf(data, ts) == IF data.ID.t = "undefined" THEN TempToken(ts) ELSE data.ID

HasKey(pc, rowId) == \E i \in 1..Len(pc) : pc[i].rowId = rowId

KeyIndex(pc, rowId) == CHOOSE i \in 1..Len(pc) : pc[i].rowId = rowId

\* TrackChange with the assignment to changes[fieldName] skipped for a field
\* that is already there.
TrackChangeFirstWins(pc, rowId, data, fieldName, newValue) ==
    IF HasKey(pc, rowId)
    THEN [pc EXCEPT ![KeyIndex(pc, rowId)].changes = @ @@ (fieldName :> newValue)]
    ELSE Append(pc, [rowId |-> rowId, original |-> data,
                     changes |-> (fieldName :> newValue)])

\* if (!has(rowId)) set(rowId, {original: {...event.data}, changes: {}});
\* get(rowId).changes[fieldName] = newValue;
TrackChange(pc, rowId, data, fieldName, newValue) ==
    IF HasKey(pc, rowId)
    THEN [pc EXCEPT ![KeyIndex(pc, rowId)].changes = (fieldName :> newValue) @@ @]
    ELSE Append(pc, [rowId |-> rowId, original |-> data,
                     changes |-> (fieldName :> newValue)])

Remember(h, rowId, data, fieldName, newValue) ==
    [edited |-> TRUE,
     first |-> IF h.edited THEN h.first ELSE data,
     writes |-> (fieldName :> newValue) @@ h.writes,
     keys |-> h.keys \cup {rowId}]

\* The grid ends the editing of cell (r, fieldName) with newValue: it has
\* written the value into the row object, event.data, before the handler runs.
\* Date.now() is called for a row without ID only, and returns ts: the time of
\* the last call, or a later one.
OnCellChanged(r, fieldName, newValue, ts) ==
    /\ ~loading
    /\ r \in 1..Len(currentData)
    /\ ts \in IF currentData[r].ID.t = "undefined" THEN {now, now + 1} ELSE {now}
    /\ LET oldValue == currentData[r][fieldName]
           data == [currentData[r] EXCEPT ![fieldName] = newValue]
           rowId == RowIdOf(data, ts)
       IN  IF newValue # oldValue
           THEN /\ Event
                /\ currentData' = [currentData EXCEPT ![r] = data]
                /\ pendingChanges' =
                       TrackChange(pendingChanges, rowId, data, fieldName, newValue)
                /\ pendingText' = Len(pendingChanges')
                /\ saveDisabled' = FALSE
                /\ session' = [session EXCEPT
                       ![r] = Remember(@, rowId, data, fieldName, newValue)]
                /\ now' = ts
                /\ NoToastShown /\ Handled
                /\ UNCHANGED << fields, pendingConfirmAction, isConnected, inflight,
                                loading, errorAlert, modalOpen >>
           ELSE UNCHANGED vars

\* ------------------------------------------------- loadInitialData, refresh

\* loadInitialData() up to its first await: showLoading(true), fetch('/api/fields').
StartLoad(flight, origin) ==
    /\ loading' = TRUE
    /\ inflight' = Append(flight, LoadTask("fields", origin))

\* AfterLoad with the call of enableSaveButton(false) left out.
AfterLoadKeepsButton(origin) ==
    IF origin = "init"
    THEN UNCHANGED << pendingChanges, pendingText, saveDisabled, session >>
    ELSE /\ pendingChanges' = <<>>
         /\ pendingText' = 0
         /\ UNCHANGED saveDisabled
         /\ session' = NoSession

\* refreshData() after its await: clear(), updatePendingChangesCount(),
\* enableSaveButton(false).  The constructor's load is not followed by it.
AfterLoad(origin) ==
    IF origin = "init"
    THEN UNCHANGED << pendingChanges, pendingText, saveDisabled, session >>
    ELSE /\ pendingChanges' = <<>>
         /\ pendingText' = 0
         /\ saveDisabled' = TRUE
         /\ session' = NoSession

\* LoadFailed with refreshData's rest skipped when the load threw.
LoadFailedKeepsPending(i, message) ==
    /\ errorAlert' = message
    /\ isConnected' = FALSE
    /\ loading' = FALSE
    /\ inflight' = RemoveAt(inflight, i)
    /\ UNCHANGED << pendingChanges, pendingText, saveDisabled, session >>

\* The catch and finally blocks of loadInitialData, then its caller's rest.
\* message is error.message: the body's error, or the text of fetch's TypeError.
LoadFailed(i, message) ==
    /\ errorAlert' = message
    /\ isConnected' = FALSE
    /\ loading' = FALSE
    /\ inflight' = RemoveAt(inflight, i)
    /\ AfterLoad(inflight[i].origin)

\* The Refresh button or Ctrl+R.
RefreshData ==
    /\ Event
    /\ Room
    /\ StartLoad(inflight, "user")
    /\ NoToastShown /\ Handled
    /\ UNCHANGED << fields, currentData, pendingChanges, pendingConfirmAction,
                    isConnected, now, errorAlert, pendingText,
                    saveDisabled, modalOpen, session >>

\* FieldsResponse with the throw on fieldsData.error left out and a rejected
\* fetch swallowed: the error is shown and the load goes on to the rows.
FieldsResponseIgnoresError(i, outcome) ==
    /\ i \in 1..Len(inflight)
    /\ inflight[i].kind = "load"
    /\ inflight[i].stage = "fields"
    /\ fields' = IF outcome = "ok" THEN Schema ELSE <<>>
    /\ inflight' = Append(RemoveAt(inflight, i), LoadTask("data", inflight[i].origin))
    /\ errorAlert' = IF outcome \in {"ok", "nofields"} THEN errorAlert ELSE "Failed to load"
    /\ UNCHANGED << currentData, pendingChanges, isConnected, loading,
                    pendingText, saveDisabled, session >>
    /\ NoToastShown /\ Handled
    /\ UNCHANGED << pendingConfirmAction, now, modalOpen >>
    /\ Response /\ NoRows

\* The answer to GET /api/fields: the schema, a body without fields, a body
\* with error set, or a rejected fetch.
FieldsResponse(i, outcome) ==
    /\ i \in 1..Len(inflight)
    /\ inflight[i].kind = "load"
    /\ inflight[i].stage = "fields"
    /\ IF outcome \in {"ok", "nofields"}
       THEN /\ fields' = IF outcome = "ok" THEN Schema ELSE <<>>
            /\ inflight' = Append(RemoveAt(inflight, i),
                                  LoadTask("data", inflight[i].origin))
            /\ UNCHANGED << currentData, pendingChanges, isConnected, loading,
                            errorAlert, pendingText, saveDisabled, session >>
       ELSE /\ LoadFailed(i, "Failed to load")
            /\ UNCHANGED << fields, currentData >>
    /\ NoToastShown /\ Handled
    /\ UNCHANGED << pendingConfirmAction, now, modalOpen >>
    /\ Response /\ NoRows

\* The place of request i among the /api/data requests in flight, in the
\* order they were issued.
DataRank(flight, i) ==
    Cardinality({ k \in 1..i : flight[k].kind = "load" /\ flight[k].stage = "data" })

\* The answer to GET /api/data: items, a body without items, a body with
\* error set, or a rejected fetch.
DataResponse(i, outcome, items) ==
    /\ i \in 1..Len(inflight)
    /\ inflight[i].kind = "load"
    /\ inflight[i].stage = "data"
    /\ IF outcome \in {"ok", "noitems"}
       THEN /\ currentData' = IF outcome = "ok" THEN items ELSE <<>>
            /\ isConnected' = TRUE
            /\ errorAlert' = ""
            /\ loading' = FALSE
            /\ inflight' = RemoveAt(inflight, i)
            /\ AfterLoad(inflight[i].origin)
       ELSE /\ LoadFailed(i, "Failed to load")
            /\ UNCHANGED currentData
    /\ NoToastShown /\ Handled
    /\ UNCHANGED << fields, pendingConfirmAction, now, modalOpen >>
    /\ staleLoads' =
           IF outcome \in {"ok", "noitems"} THEN DataRank(inflight, i) - 1
           ELSE IF DataRank(inflight, i) <= staleLoads THEN staleLoads - 1
           ELSE staleLoads
    /\ Response

\* ---------------------------------------------------------- saveAllChanges

\* rowId.startsWith('new_'): a string method, so a numeric rowId throws.
StartsWithNew(rowId) == rowId.t = "new_"

\* Operation with the spread's two operands exchanged.
OperationOriginalWins(entry) ==
    IF StartsWithNew(entry.rowId)
    THEN [action |-> "create", id |-> NoID, data |-> entry.original @@ entry.changes]
    ELSE [action |-> "update", id |-> entry.rowId, data |-> entry.changes]

\* One operation of the bulk request: {...original, ...changes} lets the
\* right operand win.
Operation(entry) ==
    IF StartsWithNew(entry.rowId)
    THEN [action |-> "create", id |-> NoID, data |-> entry.changes @@ entry.original]
    ELSE [action |-> "update", id |-> entry.rowId, data |-> entry.changes]

Operations(pc) == [i \in 1..Len(pc) |-> Operation(pc[i])]

\* The loop over the map throws a TypeError at the first numeric key.
BuildThrows(pc) == \E i \in 1..Len(pc) : pc[i].rowId.t = "number"

\* SaveAllChanges without the early return on an empty map.
SaveAllChangesNoGuard ==
    /\ Event
    /\ IF BuildThrows(pendingChanges)
       THEN /\ uncaught' = TRUE
            /\ NoToastShown
            /\ UNCHANGED inflight
       ELSE /\ Room
            /\ inflight' = Append(inflight,
                   Task("bulk", "", "", Operations(pendingChanges), <<>>, 0))
            /\ NoToastShown /\ Handled
    /\ UNCHANGED << fields, currentData, pendingChanges, pendingConfirmAction,
                    isConnected, now, loading, errorAlert, pendingText,
                    saveDisabled, modalOpen, session >>

\* The Save button or Ctrl+S, up to the await of fetch('/api/bulk').
SaveAllChanges ==
    /\ Event
    /\ IF Len(pendingChanges) = 0
       THEN /\ toast' = Toast("info", "No changes to save", NoID)
            /\ Handled
            /\ UNCHANGED inflight
       ELSE IF BuildThrows(pendingChanges)
       THEN /\ uncaught' = TRUE
            /\ NoToastShown
            /\ UNCHANGED inflight
       ELSE /\ Room
            /\ inflight' = Append(inflight,
                   Task("bulk", "", "", Operations(pendingChanges), <<>>, 0))
            /\ NoToastShown /\ Handled
    /\ UNCHANGED << fields, currentData, pendingChanges, pendingConfirmAction,
                    isConnected, now, loading, errorAlert, pendingText,
                    saveDisabled, modalOpen, session >>

\* BulkResponse with the call of refreshData() left out.
BulkResponseNoReload(i, outcome) ==
    /\ i \in 1..Len(inflight)
    /\ inflight[i].kind = "bulk"
    /\ IF outcome = "success"
       THEN /\ toast' = Toast("success", "All changes saved successfully", NoID)
            /\ pendingChanges' = <<>>
            /\ pendingText' = 0
            /\ saveDisabled' = TRUE
            /\ session' = NoSession
            /\ inflight' = RemoveAt(inflight, i)
            /\ UNCHANGED loading
       ELSE /\ toast' = Toast("error",
                IF outcome = "failed" THEN "Error saving changes: Some operations failed"
                                      ELSE "Error saving changes: Failed to fetch",
                NoID)
            /\ inflight' = RemoveAt(inflight, i)
            /\ UNCHANGED << pendingChanges, pendingText, saveDisabled, session, loading >>
    /\ Handled
    /\ UNCHANGED << fields, currentData, pendingConfirmAction, isConnected, now,
                    errorAlert, modalOpen >>
    /\ Response /\ NoRows

\* BulkResponse with the catch block sending the request once more.
BulkResponseRetries(i, outcome) ==
    /\ i \in 1..Len(inflight)
    /\ inflight[i].kind = "bulk"
    /\ IF outcome = "success"
       THEN /\ toast' = Toast("success", "All changes saved successfully", NoID)
            /\ pendingChanges' = <<>>
            /\ pendingText' = 0
            /\ saveDisabled' = TRUE
            /\ session' = NoSession
            /\ StartLoad(RemoveAt(inflight, i), "save")
       ELSE /\ toast' = Toast("error",
                IF outcome = "failed" THEN "Error saving changes: Some operations failed"
                                      ELSE "Error saving changes: Failed to fetch",
                NoID)
            /\ inflight' = Append(RemoveAt(inflight, i), inflight[i])
            /\ UNCHANGED << pendingChanges, pendingText, saveDisabled, session, loading >>
    /\ Handled
    /\ UNCHANGED << fields, currentData, pendingConfirmAction, isConnected, now,
                    errorAlert, modalOpen >>
    /\ Response /\ NoRows

\* The answer to POST /api/bulk: success, success false, or a rejected fetch.
BulkResponse(i, outcome) ==
    /\ i \in 1..Len(inflight)
    /\ inflight[i].kind = "bulk"
    /\ IF outcome = "success"
       THEN /\ toast' = Toast("success", "All changes saved successfully", NoID)
            /\ pendingChanges' = <<>>
            /\ pendingText' = 0
            /\ saveDisabled' = TRUE
            /\ session' = NoSession
            /\ StartLoad(RemoveAt(inflight, i), "save")
       ELSE /\ toast' = Toast("error",
                IF outcome = "failed" THEN "Error saving changes: Some operations failed"
                                      ELSE "Error saving changes: Failed to fetch",
                NoID)
            /\ inflight' = RemoveAt(inflight, i)
            /\ UNCHANGED << pendingChanges, pendingText, saveDisabled, session, loading >>
    /\ Handled
    /\ UNCHANGED << fields, currentData, pendingConfirmAction, isConnected, now,
                    errorAlert, modalOpen >>
    /\ Response /\ NoRows

\* -------------------------------------------- addNewRow, saveRowFromModal

\* The Add button or Ctrl+N: the form is built and the modal shown.
AddNewRow ==
    /\ Event
    /\ ~modalOpen
    /\ modalOpen' = TRUE
    /\ NoToastShown /\ Handled
    /\ UNCHANGED << fields, currentData, pendingChanges, pendingConfirmAction,
                    isConnected, inflight, now, loading, errorAlert,
                    pendingText, saveDisabled, session >>

\* A JavaScript value of a submitted row: a string, a number, a boolean or
\* null.
JsString(s) == [t |-> "string", s |-> s, n |-> 0, b |-> FALSE]

JsNumber(n) == [t |-> "number", s |-> "", n |-> n, b |-> FALSE]

JsBoolean(b) == [t |-> "boolean", s |-> "", n |-> 0, b |-> b]

JsNull == [t |-> "null", s |-> "", n |-> 0, b |-> FALSE]

\* !value
Falsy(v) ==
    \/ v.t = "null"
    \/ v.t = "string" /\ v.s = ""
    \/ v.t = "number" /\ v.n = 0
    \/ v.t = "boolean" /\ ~v.b

\* for (let [key, value] of formData.entries()): the text and select inputs
\* of the form, data[key] = value || null for the keys that name a field.
FormToData(fs, form) ==
    [key \in {k \in DOMAIN form : \E j \in 1..Len(fs) : fs[j].name = k} |->
        IF form[key] = "" THEN JsNull ELSE JsString(form[key])]

\* `${field.title} is required`
RequiredMessage(field) == [title |-> field.title, text |-> " is required"]

\* ValidateFrom with the test of the required flag left out.
RECURSIVE ValidateFromAllFields(_, _, _)
ValidateFromAllFields(fs, data, j) ==
    IF j > Len(fs) THEN <<>>
    ELSE (IF fs[j].name \notin DOMAIN data \/ Falsy(data[fs[j].name])
          THEN << RequiredMessage(fs[j]) >> ELSE <<>>)
             \o ValidateFromAllFields(fs, data, j + 1)

\* validateRowData(data): the forEach over this.fields from field j on, one
\* message per field that is required and whose value is missing or falsy.
RECURSIVE ValidateFrom(_, _, _)
ValidateFrom(fs, data, j) ==
    IF j > Len(fs) THEN <<>>
    ELSE (IF fs[j].required /\ (fs[j].name \notin DOMAIN data \/ Falsy(data[fs[j].name]))
          THEN << RequiredMessage(fs[j]) >> ELSE <<>>) \o ValidateFrom(fs, data, j + 1)

ValidateRowData(fs, data) == ValidateFrom(fs, data, 1)

\* The schemas this.fields can hold when validateRowData is called: up to two
\* fields in either order, each required or not.
Schemas ==
    {<<>>}
    \cup { << FieldDef(n, b) >> : n \in FieldNames, b \in BOOLEAN }
    \cup { fs \in { << FieldDef(n1, b1), FieldDef(n2, b2) >> :
                       n1 \in FieldNames, n2 \in FieldNames,
                       b1 \in BOOLEAN, b2 \in BOOLEAN } : fs[1].name # fs[2].name }

\* The values a row object can hold for a field.
JsValues ==
    { JsNull, JsString(""), JsString("x"), JsNumber(0), JsNumber(1),
      JsBoolean(FALSE), JsBoolean(TRUE) }

\* The row objects validateRowData can be called with: any of the fields
\* absent or holding any value.
RowDatas == UNION { [S -> JsValues] : S \in SUBSET FieldNames }

\* validateRowData(data) called with this.fields = fs.
Validate(fs, data) ==
    /\ validated' = [called |-> TRUE, fs |-> fs, data |-> data,
                     errors |-> ValidateRowData(fs, data)]
    /\ UNCHANGED << fields, currentData, pendingChanges, pendingConfirmAction,
                    isConnected, inflight, now, toast, uncaught, loading, errorAlert,
                    pendingText, saveDisabled, modalOpen, idType, events, session,
                    budget, staleLoads >>

\* What the user can have typed into the form the schema builds.
Forms == [FieldNames -> {"", "x"}]

\* SaveRowFromModal with the return after the validation toast left out.
SaveRowFromModalNoReturn(form) ==
    /\ Event
    /\ modalOpen
    /\ LET data == FormToData(fields, form)
           errors == ValidateRowData(fields, data)
       IN  /\ Room
           /\ inflight' = Append(inflight, Task("create", "", "", << data >>, <<>>, 0))
           /\ toast' = IF Len(errors) > 0
                       THEN Toast("error", "Please fix the following errors", NoID)
                       ELSE NoToast
    /\ Handled
    /\ UNCHANGED << fields, currentData, pendingChanges, pendingConfirmAction,
                    isConnected, now, loading, errorAlert, pendingText,
                    saveDisabled, modalOpen, session >>

\* The modal's Save button, up to the await of fetch('/api/item').
SaveRowFromModal(form) ==
    /\ Event
    /\ modalOpen
    /\ LET data == FormToData(fields, form)
           errors == ValidateRowData(fields, data)
       IN  IF Len(errors) > 0
           THEN /\ toast' = Toast("error", "Please fix the following errors", NoID)
                /\ UNCHANGED inflight
           ELSE /\ Room
                /\ inflight' = Append(inflight,
                       Task("create", "", "", << data >>, <<>>, 0))
                /\ NoToastShown
    /\ Handled
    /\ UNCHANGED << fields, currentData, pendingChanges, pendingConfirmAction,
                    isConnected, now, loading, errorAlert, pendingText,
                    saveDisabled, modalOpen, session >>

\* CreateResponse with refreshData() called from the catch block too.
CreateResponseReloadsOnFailure(i, outcome) ==
    /\ i \in 1..Len(inflight)
    /\ inflight[i].kind = "create"
    /\ IF outcome = "success"
       THEN /\ toast' = Toast("success", "Row added successfully", NoID)
            /\ modalOpen' = FALSE
            /\ StartLoad(RemoveAt(inflight, i), "modal")
       ELSE /\ toast' = Toast("error",
                IF outcome = "failed" THEN "Error adding row: Failed to add row"
                                      ELSE "Error adding row: Failed to fetch",
                NoID)
            /\ StartLoad(RemoveAt(inflight, i), "modal")
            /\ UNCHANGED modalOpen
    /\ Handled
    /\ UNCHANGED << fields, currentData, pendingChanges, pendingConfirmAction,
                    isConnected, now, errorAlert, pendingText,
                    saveDisabled, session >>
    /\ Response /\ NoRows

\* The answer to POST /api/item: success, success false, or a rejected fetch.
CreateResponse(i, outcome) ==
    /\ i \in 1..Len(inflight)
    /\ inflight[i].kind = "create"
    /\ IF outcome = "success"
       THEN /\ toast' = Toast("success", "Row added successfully", NoID)
            /\ modalOpen' = FALSE
            /\ StartLoad(RemoveAt(inflight, i), "modal")
       ELSE /\ toast' = Toast("error",
                IF outcome = "failed" THEN "Error adding row: Failed to add row"
                                      ELSE "Error adding row: Failed to fetch",
                NoID)
            /\ inflight' = RemoveAt(inflight, i)
            /\ UNCHANGED << modalOpen, loading >>
    /\ Handled
    /\ UNCHANGED << fields, currentData, pendingChanges, pendingConfirmAction,
                    isConnected, now, errorAlert, pendingText,
                    saveDisabled, session >>
    /\ Response /\ NoRows

\* ----------------------------- deleteSelectedRows, executeConfirmedAction

\* gridApi.getSelectedRows(): some rows of the grid, each once.
Selections ==
    { sel \in UNION { [1..n -> 1..Len(currentData)] : n \in 0..Len(currentData) } :
        \A a, b \in 1..Len(sel) : a < b => sel[a] < sel[b] }

\* The Delete button or the Delete key: the confirm modal is shown and the
\* closure that deletes the selected rows is stored.
DeleteSelectedRows(sel) ==
    /\ Event
    /\ IF Len(sel) = 0
       THEN /\ toast' = Toast("error", "Please select rows to delete", NoID)
            /\ UNCHANGED pendingConfirmAction
       ELSE /\ pendingConfirmAction' = [k \in 1..Len(sel) |-> currentData[sel[k]].ID]
            /\ NoToastShown
    /\ Handled
    /\ UNCHANGED << fields, currentData, pendingChanges, isConnected, inflight, now,
                    loading, errorAlert, pendingText, saveDisabled,
                    modalOpen, session >>

\* The confirm button: the stored closure runs up to its first await, the
\* DELETE of the first selected row, and is dropped.
ExecuteConfirmedAction ==
    /\ Event
    /\ pendingConfirmAction # <<>>
    /\ Room
    /\ inflight' = Append(inflight,
           Task("delete", "", "", <<>>, pendingConfirmAction, 1))
    /\ pendingConfirmAction' = <<>>
    /\ NoToastShown /\ Handled
    /\ UNCHANGED << fields, currentData, pendingChanges, isConnected, now,
                    loading, errorAlert, pendingText, saveDisabled,
                    modalOpen, session >>

\* DeleteResponse with the loop going on to the next row after a status that
\* is not ok.
DeleteResponseContinues(i, outcome) ==
    /\ i \in 1..Len(inflight)
    /\ inflight[i].kind = "delete"
    /\ LET t == inflight[i]
       IN  IF outcome = "ok" /\ t.idx < Len(t.rows)
           THEN /\ inflight' = Append(RemoveAt(inflight, i),
                       Task("delete", "", "", <<>>, t.rows, t.idx + 1))
                /\ NoToastShown
                /\ UNCHANGED loading
           ELSE IF outcome = "ok"
           THEN /\ toast' = Toast("success", "row(s) deleted successfully", NoID)
                /\ StartLoad(RemoveAt(inflight, i), "delete")
           ELSE /\ toast' =
                       IF outcome = "notok"
                       THEN Toast("error", "Error deleting rows: Failed to delete row",
                                  t.rows[t.idx])
                       ELSE Toast("error", "Error deleting rows: Failed to fetch", NoID)
                /\ inflight' =
                       IF t.idx < Len(t.rows)
                       THEN Append(RemoveAt(inflight, i),
                                   Task("delete", "", "", <<>>, t.rows, t.idx + 1))
                       ELSE RemoveAt(inflight, i)
                /\ UNCHANGED loading
    /\ Handled
    /\ UNCHANGED << fields, currentData, pendingChanges, pendingConfirmAction,
                    isConnected, now, errorAlert, pendingText,
                    saveDisabled, modalOpen, session >>
    /\ Response /\ NoRows

\* The answer to DELETE /api/item/<ID>: a 2xx status, another status, or a
\* rejected fetch.
DeleteResponse(i, outcome) ==
    /\ i \in 1..Len(inflight)
    /\ inflight[i].kind = "delete"
    /\ LET t == inflight[i]
       IN  IF outcome = "ok" /\ t.idx < Len(t.rows)
           THEN /\ inflight' = Append(RemoveAt(inflight, i),
                       Task("delete", "", "", <<>>, t.rows, t.idx + 1))
                /\ NoToastShown
                /\ UNCHANGED loading
           ELSE IF outcome = "ok"
           THEN /\ toast' = Toast("success", "row(s) deleted successfully", NoID)
                /\ StartLoad(RemoveAt(inflight, i), "delete")
           ELSE /\ toast' =
                       IF outcome = "notok"
                       THEN Toast("error", "Error deleting rows: Failed to delete row",
                                  t.rows[t.idx])
                       ELSE Toast("error", "Error deleting rows: Failed to fetch", NoID)
                /\ inflight' = RemoveAt(inflight, i)
                /\ UNCHANGED loading
    /\ Handled
    /\ UNCHANGED << fields, currentData, pendingChanges, pendingConfirmAction,
                    isConnected, now, errorAlert, pendingText,
                    saveDisabled, modalOpen, session >>
    /\ Response /\ NoRows

\* ---------------------------------------------------------------- exportData

\* An export button, up to the await of fetch('/api/export/<format>').
ExportData(format) ==
    /\ Event
    /\ Room
    /\ inflight' = Append(inflight, Task("export", "", "", <<>>, <<>>, 0))
    /\ NoToastShown /\ Handled
    /\ UNCHANGED << fields, currentData, pendingChanges, pendingConfirmAction,
                    isConnected, now, loading, errorAlert,
                    pendingText, saveDisabled, modalOpen, session >>

\* The answer to GET /api/export/<format>: a 2xx status, or another status or
\* a rejected fetch.
ExportResponse(i, outcome) ==
    /\ i \in 1..Len(inflight)
    /\ inflight[i].kind = "export"
    /\ toast' = IF outcome = "ok"
                THEN Toast("success", "Export completed successfully", NoID)
                ELSE Toast("error", "Error exporting data", NoID)
    /\ inflight' = RemoveAt(inflight, i)
    /\ Handled
    /\ UNCHANGED << fields, currentData, pendingChanges, pendingConfirmAction,
                    isConnected, now, loading, errorAlert, pendingText,
                    saveDisabled, modalOpen, session >>
    /\ Response /\ NoRows

\* ------------------------------------------------------------------ Next

\* The change tracker and the loads: cell edits, Save, Refresh and the
\* answers to their requests.
NextTracker ==
    \/ \E r \in 1..Len(currentData) : \E f \in FieldNames : \E v \in CellValues(f) :
           \E ts \in {now, now + 1} : OnCellChanged(r, f, v, ts)
    \/ RefreshData
    \/ \E i \in 1..Len(inflight) : \E outcome \in {"ok", "nofields", "error", "network"} :
           FieldsResponse(i, outcome)
    \/ \E i \in 1..Len(inflight) : \E items \in DataSets(idType) :
           DataResponse(i, "ok", items)
    \/ \E i \in 1..Len(inflight) : \E outcome \in {"noitems", "error", "network"} :
           DataResponse(i, outcome, <<>>)
    \/ SaveAllChanges
    \/ \E i \in 1..Len(inflight) : \E outcome \in {"success", "failed", "network"} :
           BulkResponse(i, outcome)

\* The modal row creation, the deletion and the export.
NextRows ==
    \/ AddNewRow
    \/ \E form \in Forms : SaveRowFromModal(form)
    \/ \E i \in 1..Len(inflight) : \E outcome \in {"success", "failed", "network"} :
           CreateResponse(i, outcome)
    \/ \E sel \in Selections : DeleteSelectedRows(sel)
    \/ ExecuteConfirmedAction
    \/ \E i \in 1..Len(inflight) : \E outcome \in {"ok", "notok", "network"} :
           DeleteResponse(i, outcome)
    \/ \E format \in {"excel", "csv"} : ExportData(format)
    \/ \E i \in 1..Len(inflight) : \E outcome \in {"ok", "failed"} :
           ExportResponse(i, outcome)

Next == NextTracker \/ NextRows

\* Every handler of the application.
Spec == Init /\ [][Next]_vars

\* The change tracker alone: the user edits cells, saves and refreshes.
SpecTracker == Init /\ [][NextTracker]_vars

\* validateRowData alone, called with every schema and every row object.
NextValidate == \E fs \in Schemas : \E data \in RowDatas : Validate(fs, data)

SpecValidate == Init /\ [][NextValidate]_vars

\* The tracker when every request succeeds, followed for one user action
\* more: edits, Save and Refresh with their loads overlapping.
NextReload ==
    \/ \E r \in 1..Len(currentData) : \E f \in FieldNames : \E v \in CellValues(f) :
           \E ts \in {now, now + 1} : OnCellChanged(r, f, v, ts)
    \/ RefreshData
    \/ \E i \in 1..Len(inflight) : FieldsResponse(i, "ok")
    \/ \E i \in 1..Len(inflight) : \E items \in DataSets(idType) :
           DataResponse(i, "ok", items)
    \/ SaveAllChanges
    \/ \E i \in 1..Len(inflight) : BulkResponse(i, "success")

InitReload == Constructed /\ budget = MaxEvents + 1

SpecReload == InitReload /\ [][NextReload]_vars

\* ---------------------------------------------------------------- claims

\* The entries of the pending map filed under rowId.
EntriesOf(rowId) == { i \in 1..Len(pendingChanges) : pendingChanges[i].rowId = rowId }

HasBackendID(r) == currentData[r].ID.t \in {"number", "string"}

\* C1: after any sequence of value-changing edits to a row that has a backend
\* ID, with no save or refresh in between, the pending map holds exactly one
\* entry under that ID, its changes are exactly the fields edited, each with
\* the value of its last edit, and it is the only entry when no other row was
\* edited.
C1_LastWriteWins ==
    \A r \in 1..Len(currentData) :
        (HasBackendID(r) /\ session[r].edited) =>
            /\ Cardinality(EntriesOf(currentData[r].ID)) = 1
            /\ \A i \in EntriesOf(currentData[r].ID) :
                   pendingChanges[i].changes = session[r].writes
            /\ (\A q \in 1..Len(currentData) : q # r => ~session[q].edited)
                   => Len(pendingChanges) = 1

\* A row with a backend ID whose two fields were edited, the field of the
\* first edit once more after it.
C1_Witness ==
    \E r \in 1..Len(currentData) : \E i \in 1..Len(pendingChanges) :
        /\ HasBackendID(r)
        /\ pendingChanges[i].rowId = currentData[r].ID
        /\ DOMAIN pendingChanges[i].changes = FieldNames
        /\ \A f \in FieldNames :
               pendingChanges[i].changes[f] # pendingChanges[i].original[f]

\* The step appends a POST /api/bulk to the requests in flight.
BulkIssued ==
    /\ Len(inflight') = Len(inflight) + 1
    /\ inflight'[Len(inflight')].kind = "bulk"

\* The number of loads in flight at one stage for one caller.
Loads(flight, stage, origin) ==
    Cardinality({ i \in 1..Len(flight) : flight[i] = LoadTask(stage, origin) })

\* The step handles the answer to a bulk request as a success, as a failure:
\* it shows the toast of that branch.
BulkSucceeded == toast' = Toast("success", "All changes saved successfully", NoID)

BulkFailed ==
    /\ toast'.type = "error"
    /\ toast'.message \in {"Error saving changes: Some operations failed",
                           "Error saving changes: Failed to fetch"}

\* C2: saveAll() on a non-empty pending map issues exactly one POST /api/bulk
\* with one operation per pending entry, in the map's order: an update with
\* the entry's ID and only its changes for an entry keyed by a backend ID, a
\* create for an entry keyed by a temporary token.
C2_SaveAllIssuesOneBulk ==
    [][(SaveAllChanges /\ Len(pendingChanges) > 0) =>
          /\ BulkIssued
          /\ LET ops == inflight'[Len(inflight')].ops
             IN  /\ Len(ops) = Len(pendingChanges)
                 /\ \A i \in 1..Len(pendingChanges) :
                        IF pendingChanges[i].rowId.t \in {"number", "string"}
                        THEN /\ ops[i].action = "update"
                             /\ ops[i].id = pendingChanges[i].rowId
                             /\ ops[i].data = pendingChanges[i].changes
                        ELSE ops[i].action = "create"]_vars

\* C3: in the bulk request saveAll() issues, the operation of every entry
\* keyed by a temporary token is a create whose data has the fields of
\* original and of changes, the value of changes where changes has the field
\* and the value of original elsewhere.
C3_CreateDataIsMerge ==
    [][BulkIssued =>
          LET ops == inflight'[Len(inflight')].ops
          IN  /\ Len(ops) = Len(pendingChanges)
              /\ \A i \in 1..Len(pendingChanges) :
                     pendingChanges[i].rowId.t = "new_" =>
                         LET e == pendingChanges[i]
                         IN  /\ ops[i].action = "create"
                             /\ DOMAIN ops[i].data = DOMAIN e.original \cup DOMAIN e.changes
                             /\ \A f \in DOMAIN e.changes : ops[i].data[f] = e.changes[f]
                             /\ \A f \in DOMAIN e.original \ DOMAIN e.changes :
                                    ops[i].data[f] = e.original[f]]_vars

\* A bulk request in flight with the create of a token-keyed entry whose
\* changes differ from its original in a field, and whose original has
\* fields that changes has not.
C3_Witness ==
    \E k \in 1..Len(inflight) : \E i \in 1..Len(pendingChanges) :
        /\ inflight[k].kind = "bulk"
        /\ i \in 1..Len(inflight[k].ops)
        /\ pendingChanges[i].rowId.t = "new_"
        /\ inflight[k].ops[i].action = "create"
        /\ inflight[k].ops[i].data = pendingChanges[i].changes @@ pendingChanges[i].original
        /\ \E f \in DOMAIN pendingChanges[i].changes :
               pendingChanges[i].changes[f] # pendingChanges[i].original[f]
        /\ DOMAIN pendingChanges[i].original \ DOMAIN pendingChanges[i].changes # {}

C5_EmptySaveIsNoOp ==
    [][(SaveAllChanges /\ pendingChanges = <<>>) =>
          /\ inflight' = inflight
          /\ pendingChanges' = <<>>
          /\ toast' = Toast("info", "No changes to save", NoID)
          /\ uncaught' = FALSE
          /\ UNCHANGED << currentData, loading, errorAlert, pendingText, saveDisabled >>]_vars

\* Save was pressed on an empty map with nothing in flight.
C5_Witness ==
    /\ toast = Toast("info", "No changes to save", NoID)
    /\ pendingChanges = <<>>
    /\ inflight = <<>>
    /\ currentData # <<>>

\* C6: the step that handles a failed bulk request (success false, or the
\* fetch rejected) issues no request and keeps the map; a bulk request is
\* issued by a user's saveAll() only, with one operation per entry of the map
\* as it is then.
C6_NoRetryAfterFailure ==
    [][/\ BulkFailed =>
              /\ \E i \in 1..Len(inflight) :
                     inflight[i].kind = "bulk" /\ inflight' = RemoveAt(inflight, i)
              /\ UNCHANGED << pendingChanges, loading >>
       /\ BulkIssued =>
              /\ SaveAllChanges
              /\ events' = events + 1
              /\ LET ops == inflight'[Len(inflight')].ops
                 IN  /\ Len(ops) = Len(pendingChanges)
                     /\ \A i \in 1..Len(pendingChanges) :
                            \/ ops[i].action = "create"
                                   /\ pendingChanges[i].rowId.t = "new_"
                            \/ ops[i].action = "update"
                                   /\ ops[i].id = pendingChanges[i].rowId]_vars

\* A bulk request failed: its error is shown, the map still holds its
\* entries and nothing is in flight.
C6_Witness ==
    /\ toast.type = "error"
    /\ toast.message \in {"Error saving changes: Some operations failed",
                          "Error saving changes: Failed to fetch"}
    /\ pendingChanges # <<>>
    /\ inflight = <<>>

\* C7: a row without backend ID that was edited, with no save or refresh
\* since, has one key and one entry in the pending map, and the entry's
\* changes are the last value written to each edited field.
C7_TokenStable ==
    \A r \in 1..Len(currentData) :
        (~HasBackendID(r) /\ session[r].edited) =>
            /\ Cardinality(session[r].keys) = 1
            /\ \A k \in session[r].keys :
                   /\ Cardinality(EntriesOf(k)) = 1
                   /\ \A i \in EntriesOf(k) :
                          pendingChanges[i].changes = session[r].writes

\* C8: the original of every pending entry of a row is the row as it was at
\* the first edit of the row since the map was last cleared.
C8_OriginalIsFirstSnapshot ==
    \A r \in 1..Len(currentData) :
        session[r].edited =>
            \A i \in 1..Len(pendingChanges) :
                pendingChanges[i].rowId \in session[r].keys =>
                    pendingChanges[i].original = session[r].first

\* C9: a step that removes an entry from the pending map empties the map, and
\* is the handling of a successful bulk request or the end of a load the
\* user's Refresh or a successful save started.
C9_OnlyCommitOrRefreshClears ==
    [][(\E e \in 1..Len(pendingChanges) :
            ~HasKey(pendingChanges', pendingChanges[e].rowId)) =>
          /\ pendingChanges' = <<>>
          /\ \/ BulkSucceeded
             \/ \E i \in 1..Len(inflight) :
                    /\ inflight[i].kind = "load"
                    /\ inflight[i].origin \in {"user", "save"}
                    /\ inflight' = RemoveAt(inflight, i)]_vars

\* The step ends the load of a refreshData() call.
RefreshCompletes(i) ==
    /\ inflight[i].kind = "load"
    /\ inflight[i].origin # "init"
    /\ inflight' = RemoveAt(inflight, i)

\* C10: when the load of a refreshData() call ends, with or without error,
\* the pending map is empty and the counter shows 0; when it ends without
\* error the rows are a list the backend answered with (none of the edits).
C10_RefreshDiscards ==
    [][\A i \in 1..Len(inflight) :
          RefreshCompletes(i) =>
              /\ pendingChanges' = <<>>
              /\ pendingText' = 0
              /\ errorAlert' = "" =>
                     /\ isConnected'
                     /\ currentData' \in DataSets(idType) \cup {<<>>}
                     /\ \A items \in DataSets(idType) :
                            DataResponse(i, "ok", items) => currentData' = items]_vars

\* A refresh failed after rows were edited: the error is shown, the edited
\* rows are still in the grid, the map is empty and nothing is in flight.
C10_Witness ==
    /\ errorAlert # ""
    /\ pendingChanges = <<>>
    /\ inflight = <<>>
    /\ currentData # <<>>
    /\ currentData \notin DataSets(idType)

\* The DELETE requests in flight for row number idx of the batch rows.
Deletes(flight, rows, idx) ==
    Cardinality({ k \in 1..Len(flight) :
        flight[k].kind = "delete" /\ flight[k].rows = rows /\ flight[k].idx = idx })

\* The step shows the error toast of the delete closure's catch block.
DeleteFailed ==
    /\ toast'.type = "error"
    /\ toast'.message \in {"Error deleting rows: Failed to delete row",
                           "Error deleting rows: Failed to fetch"}

\* C11: a DELETE for the first selected row is issued by the confirm button
\* only; a DELETE for a later row of the selection is issued only by the step
\* that receives the answer to the DELETE of the row before it, and only when
\* that answer is no failure; the step that handles a failed DELETE issues no
\* request (no later row, no retry, no reload) and leaves the rows as they are.
C11_DeletesSequentialAbortOnFailure ==
    [][/\ \A k \in 1..Len(inflight') :
              LET t == inflight'[k]
              IN  (t.kind = "delete" /\
                   Deletes(inflight', t.rows, t.idx) > Deletes(inflight, t.rows, t.idx)) =>
                      /\ t.idx \in 1..Len(t.rows)
                      /\ Deletes(inflight', t.rows, t.idx) =
                             Deletes(inflight, t.rows, t.idx) + 1
                      /\ IF t.idx = 1
                         THEN /\ events' = events + 1
                              /\ t.rows = pendingConfirmAction
                              /\ inflight' = Append(inflight, t)
                         ELSE /\ Deletes(inflight', t.rows, t.idx - 1) =
                                     Deletes(inflight, t.rows, t.idx - 1) - 1
                              /\ Len(inflight') = Len(inflight)
                              /\ ~DeleteFailed
       /\ DeleteFailed =>
              /\ \E i \in 1..Len(inflight) :
                     inflight[i].kind = "delete" /\ inflight' = RemoveAt(inflight, i)
              /\ UNCHANGED << currentData, loading, pendingConfirmAction >>]_vars

\* The DELETE of the second of two selected rows is in flight: the first was
\* answered.
C11_Witness ==
    \E k \in 1..Len(inflight) :
        /\ inflight[k].kind = "delete"
        /\ Len(inflight[k].rows) = 2
        /\ inflight[k].idx = 2

\* C12: the step that handles a failed DELETE, whatever the failure, shows an
\* error that names the ID of the row whose DELETE failed.
C12_DeleteErrorNamesRow ==
    [][DeleteFailed =>
          \E i \in 1..Len(inflight) :
              /\ inflight[i].kind = "delete"
              /\ inflight' = RemoveAt(inflight, i)
              /\ toast'.row = inflight[i].rows[inflight[i].idx]]_vars

\* The fields of the validated schema that the returned messages name.
Reported == { j \in 1..Len(validated.fs) :
                \E k \in 1..Len(validated.errors) :
                    validated.errors[k].title = validated.fs[j].title }

\* The field's value in the validated row object is absent (not there, or
\* null) or the empty string.
AbsentOrEmpty(j) ==
    LET name == validated.fs[j].name
    IN  \/ name \notin DOMAIN validated.data
        \/ validated.data[name] = JsNull
        \/ validated.data[name] = JsString("")

\* C13: validate(data) reports a field if and only if the field is required
\* and its value in data is absent or the empty string: every other value of
\* a required field, 0 and false included, and every non-required field
\* passes.
C13_OnlyPresenceEnforced ==
    validated.called =>
        \A j \in 1..Len(validated.fs) :
            j \in Reported <=> (validated.fs[j].required /\ AbsentOrEmpty(j))

\* The required fields of a schema, in schema order.
RequiredFields(fs) == SelectSeq(fs, LAMBDA f : f.required)

\* C14: for a schema with a required field, validate({}) returns one message
\* per required field and no other, in schema order, each '<title> is
\* required'.
C14_EmptyRowOneErrorPerRequired ==
    (/\ validated.called
     /\ DOMAIN validated.data = {}
     /\ \E j \in 1..Len(validated.fs) : validated.fs[j].required) =>
        LET req == RequiredFields(validated.fs)
        IN  /\ Len(validated.errors) = Len(req)
            /\ \A k \in 1..Len(req) :
                   /\ validated.errors[k].title = req[k].title
                   /\ validated.errors[k].text = " is required"

\* validate({}) was called with a schema of a non-required field followed by
\* a required one.
C14_Witness ==
    /\ validated.called
    /\ DOMAIN validated.data = {}
    /\ Len(validated.fs) = 2
    /\ ~validated.fs[1].required
    /\ validated.fs[2].required
    /\ Len(validated.errors) = 1

\* C15: a submission of the modal whose validation returns an error issues no
\* request and shows the errors; one whose validation returns none issues one
\* POST /api/item with the form's data and nothing else.
C15_RejectedSubmissionSendsNothing ==
    [][\A form \in Forms :
          SaveRowFromModal(form) =>
              LET data == FormToData(fields, form)
              IN  IF Len(ValidateRowData(fields, data)) > 0
                  THEN /\ inflight' = inflight
                       /\ toast'.type = "error"
                  ELSE /\ Len(inflight') = Len(inflight) + 1
                       /\ SubSeq(inflight', 1, Len(inflight)) = inflight
                       /\ inflight'[Len(inflight')].kind = "create"
                       /\ inflight'[Len(inflight')].ops = << data >>]_vars

\* A submission was rejected: the modal is open, the errors are shown and
\* nothing is in flight.
C15_Witness ==
    /\ modalOpen
    /\ toast = Toast("error", "Please fix the following errors", NoID)
    /\ inflight = <<>>
    /\ fields = Schema

\* The callers of loadInitialData.
Origins == {"init", "user", "save", "modal", "delete"}

\* C16: a GET /api/data is issued only by the step that receives the fields
\* of the same load without error, the step that assigns this.fields; a load
\* whose wait for the fields ends otherwise shows the error and issues no
\* request, neither for the rows nor once more for the fields.
C16_DataAfterFieldsOnly ==
    [][/\ \A origin \in Origins :
              /\ Loads(inflight', "data", origin) > Loads(inflight, "data", origin) =>
                     /\ Loads(inflight', "data", origin) =
                            Loads(inflight, "data", origin) + 1
                     /\ Loads(inflight', "fields", origin) =
                            Loads(inflight, "fields", origin) - 1
                     /\ fields' \in {Schema, <<>>}
                     /\ UNCHANGED << errorAlert, currentData >>
              /\ (/\ Loads(inflight', "fields", origin) < Loads(inflight, "fields", origin)
                  /\ Loads(inflight', "data", origin) <= Loads(inflight, "data", origin)) =>
                     /\ errorAlert' # ""
                     /\ ~isConnected'
                     /\ Len(inflight') = Len(inflight) - 1
                     /\ UNCHANGED fields
       /\ fields' # fields =>
              \E origin \in Origins :
                  Loads(inflight', "data", origin) > Loads(inflight, "data", origin)]_vars

\* The fields of the first load arrived and its request for the rows is in
\* flight.
C16_Witness ==
    /\ fields = Schema
    /\ currentData = <<>>
    /\ inflight = << LoadTask("data", "init") >>

\* The GET /api/fields requests in flight.
FieldsRequests(flight) ==
    Cardinality({ k \in 1..Len(flight) :
        flight[k].kind = "load" /\ flight[k].stage = "fields" })

\* C17: once the first load is over and has delivered the fields, no step
\* issues a GET /api/fields and no step changes this.fields.
C17_SchemaFetchedOnce ==
    [][(/\ \A k \in 1..Len(inflight) : inflight[k].origin # "init"
        /\ fields # <<>>) =>
          /\ FieldsRequests(inflight') <= FieldsRequests(inflight)
          /\ fields' = fields]_vars

\* C18: at most one request is in flight at any instant.
C18_OneRequestInFlight == Len(inflight) <= 1

\* The step handles the failure of request i: a create, a bulk, a delete or
\* an export that answered with a failure or did not answer.
OperationFailed(i) ==
    \/ \E outcome \in {"failed", "network"} : CreateResponse(i, outcome)
    \/ \E outcome \in {"failed", "network"} : BulkResponse(i, outcome)
    \/ \E outcome \in {"notok", "network"} : DeleteResponse(i, outcome)
    \/ ExportResponse(i, "failed")

\* C19: the step that handles a failed create, bulk, delete or export shows an
\* error toast, ends the request without issuing another, and leaves the
\* pending map, the fields and the rows as they are.
C19_FailedOperationKeepsState ==
    [][\A i \in 1..Len(inflight) :
          OperationFailed(i) =>
              /\ toast'.type = "error"
              /\ toast'.element = "errorToast"
              /\ inflight' = RemoveAt(inflight, i)
              /\ UNCHANGED << pendingChanges, fields, currentData, isConnected,
                              errorAlert >>]_vars

\* A create failed while the map held an edit: the error is shown, the edit
\* is still pending and the edited rows are in the grid.
C19_Witness ==
    /\ toast.type = "error"
    /\ toast.message \in {"Error adding row: Failed to add row",
                          "Error adding row: Failed to fetch"}
    /\ pendingChanges # <<>>
    /\ fields = Schema
    /\ currentData \notin DataSets(idType)
    /\ inflight = <<>>

\* C20: while the error banner of a failed load is shown, that is until a
\* later load succeeds, the grid is not displayed.
C20_BannerBlocksGrid == errorAlert # "" => loading

\* The step handles the success of bulk request i: the request is replaced by
\* the reload's GET /api/fields.
BulkSucceededFor(i) ==
    /\ inflight[i].kind = "bulk"
    /\ BulkSucceeded
    /\ inflight' = Append(RemoveAt(inflight, i), LoadTask("fields", "save"))

\* The operation op submits the change of field f of the pending entry e.
Submits(op, e, f) ==
    /\ f \in DOMAIN op.data
    /\ op.data[f] = e.changes[f]
    /\ IF e.rowId.t = "new_"
       THEN op.action = "create"
       ELSE op.action = "update" /\ op.id = e.rowId

\* C21: every field change the handling of a successful bulk request removes
\* from the pending map was submitted by an operation of that request; so an
\* edit recorded while the request was in flight is not removed.
C21_SaveLosesNoEdit ==
    [][\A i \in 1..Len(inflight) :
          BulkSucceededFor(i) =>
              \A e \in 1..Len(pendingChanges) :
                  \A f \in DOMAIN pendingChanges[e].changes :
                      \/ /\ HasKey(pendingChanges', pendingChanges[e].rowId)
                         /\ f \in DOMAIN pendingChanges'[
                                KeyIndex(pendingChanges', pendingChanges[e].rowId)].changes
                      \/ \E o \in 1..Len(inflight[i].ops) :
                             Submits(inflight[i].ops[o], pendingChanges[e], f)]_vars

\* Two operations submit the same pending entry: updates of one ID, or
\* creates of the same row data.
SameEntry(a, b) ==
    /\ a.action = b.action
    /\ IF a.action = "update" THEN a.id = b.id ELSE a.data = b.data

\* C22: no two bulk requests in flight at the same time hold an operation of
\* the same pending entry.
C22_NoEntryInTwoRequests ==
    \A k1, k2 \in 1..Len(inflight) :
        (k1 < k2 /\ inflight[k1].kind = "bulk" /\ inflight[k2].kind = "bulk") =>
            \A a \in 1..Len(inflight[k1].ops) : \A b \in 1..Len(inflight[k2].ops) :
                ~SameEntry(inflight[k1].ops[a], inflight[k2].ops[b])

\* C23: the step that ends the reload a successful save started removes
\* nothing from the pending map: what the map holds then was recorded after
\* the save had cleared it.
C23_EditDuringReloadKept ==
    [][\A i \in 1..Len(inflight) :
          (/\ inflight[i].kind = "load"
           /\ inflight[i].origin = "save"
           /\ inflight' = RemoveAt(inflight, i)) =>
              pendingChanges' = pendingChanges]_vars

\* C24: the response to a GET /api/data that was issued before the request
\* whose response the grid shows never replaces the rows.
C24_OlderResponseNeverOverwrites ==
    [][\A i \in 1..Len(inflight) : \A items \in DataSets(idType) :
          DataResponse(i, "ok", items) => DataRank(inflight, i) > staleLoads]_vars

\* The counter shows the size of the map and the Save button is enabled if
\* and only if the map is not empty.
CounterAndButtonAgree ==
    /\ pendingText = Len(pendingChanges)
    /\ saveDisabled <=> (pendingChanges = <<>>)

\* The step is a tracked edit, the handling of a successful save or the end
\* of a refresh.
TrackerStep ==
    \/ events' = events + 1 /\ currentData' # currentData
    \/ BulkSucceeded
    \/ \E i \in 1..Len(inflight) : RefreshCompletes(i)

\* C25: every tracked edit, successful save and completed refresh leaves the
\* counter and the Save button agreeing with the pending map, and no later
\* step makes them disagree.
C25_CounterAndButtonFollowMap ==
    [][/\ TrackerStep => CounterAndButtonAgree'
       /\ CounterAndButtonAgree => CounterAndButtonAgree']_vars

\* Rows were edited and the map was cleared afterwards (the edits are still
\* in the grid): the counter shows 0 and the Save button is disabled.
C25_Witness ==
    /\ events > 0
    /\ currentData # <<>>
    /\ currentData \notin DataSets(idType)
    /\ pendingChanges = <<>>
    /\ pendingText = 0
    /\ saveDisabled

====
